---- MODULE Spec2Model ----
(***************************************************************************)
(* Model of the user-agent parser of uap-rs (src/parser/mod.rs):           *)
(*   - replace / none_if_empty, the template substitution helpers;         *)
(*   - UserAgentParser::try_from, the parallel construction of the three   *)
(*     matcher lists (rayon try_fold / try_reduce);                        *)
(*   - parse, parse_device, parse_os, parse_user_agent, the first-match    *)
(*     scans over the matcher lists.                                       *)
(* Text is a sequence of one-character strings.                            *)
(***************************************************************************)
EXTENDS Integers, Sequences, FiniteSets, TLC

\* ------------------------------------------------------------------ bounds
MaxTemplateLen == 3
MaxGroups == 2
MaxRecords == 3
MaxMatchers == 2

\* ------------------------------------------------------------ text helpers
Chars == {"$", "0", "1", "2", " ", "a"}

Digits == <<"0", "1", "2", "3", "4", "5", "6", "7", "8", "9">>

IsDigit(c) == \E d \in 1..10 : Digits[d] = c

DigitVal(c) == (CHOOSE d \in 1..10 : Digits[d] = c) - 1

IsWhitespace(c) == c = " "

\* Option<T>
None == [some |-> FALSE, val |-> <<>>]

Some(v) == [some |-> TRUE, val |-> v]

\* all texts over alphabet A of length at most n
RECURSIVE TextsUpTo(_, _)
TextsUpTo(A, n) ==
    IF n = 0 THEN {<<>>}
    ELSE LET shorter == TextsUpTo(A, n - 1)
         IN shorter \cup {Append(t, c) : t \in shorter, c \in A}

Drop(s, n) == SubSeq(s, n + 1, Len(s))

\* str::contains(char)
ContainsChar(s, c) == \E i \in 1..Len(s) : s[i] = c

\* format!("${}", i): a dollar sign followed by the decimal digits of i
RECURSIVE Decimal(_)
Decimal(i) ==
    IF i < 10 THEN <<Digits[i + 1]>>
    ELSE Decimal(i \div 10) \o <<Digits[(i % 10) + 1]>>

FormatDollar(i) == <<"$">> \o Decimal(i)

\* does pattern p occur in s at position i
OccursAt(s, p, i) ==
    i + Len(p) - 1 <= Len(s) /\ SubSeq(s, i, i + Len(p) - 1) = p

\* str::replace(from, to): every non-overlapping occurrence, left to right
RECURSIVE StrReplaceFrom(_, _, _, _)
StrReplaceFrom(s, from, to, i) ==
    IF i > Len(s) THEN <<>>
    ELSE IF OccursAt(s, from, i)
         THEN to \o StrReplaceFrom(s, from, to, i + Len(from))
         ELSE <<s[i]>> \o StrReplaceFrom(s, from, to, i + 1)

StrReplace(s, from, to) == StrReplaceFrom(s, from, to, 1)

\* str::trim: without the whitespace before the first and after the last
\* character that is not whitespace
Trim(s) ==
    LET solid == {i \in 1..Len(s) : ~IsWhitespace(s[i])}
    IN IF solid = {} THEN <<>>
       ELSE SubSeq(s, CHOOSE i \in solid : \A j \in solid : i <= j,
                      CHOOSE i \in solid : \A j \in solid : j <= i)

\* ------------------------------------------------- captures (fancy_regex)
\* A capture set is the sequence <<group 0, group 1, ..., group n>> of
\* Option<text>; group 0 (the whole match) always participates.
\* Captures::len counts group 0.
CapturesLen(caps) == Len(caps)

\* Captures::get(i): group i, None when i is out of range or the group did
\* not participate.  Group i is stored at position i + 1.
CapturesGet(caps, i) ==
    IF i + 1 <= Len(caps) THEN caps[i + 1] ELSE None

UnwrapOr(opt, dflt) == IF opt.some THEN opt.val ELSE dflt

\* ---------------------------------------------------------------- replace
\* the fold of replace: for i in 1..=captures.len(); each step's string
\* becomes the state of the next
RECURSIVE ReplaceFold(_, _, _, _)
ReplaceFold(state, caps, i, last) ==
    IF i > last THEN state
    ELSE LET group == UnwrapOr(CapturesGet(caps, i), <<>>)
         IN CHOOSE folded \in
                {ReplaceFold(next, caps, i + 1, last) :
                    next \in {StrReplace(state, FormatDollar(i), group)}} :
                TRUE

replace(replacement, caps) ==
    IF ContainsChar(replacement, "$") /\ CapturesLen(caps) > 0
    THEN CHOOSE trimmed \in
             {Trim(folded) :
                 folded \in {ReplaceFold(replacement, caps, 1,
                                         CapturesLen(caps))}} :
             TRUE
    ELSE replacement

none_if_empty(s) == IF s # <<>> THEN Some(s) ELSE None


\* ------------------------------------------------------- regex (matchers)
\* A regex source is a text of literal characters and capturing groups
\* "(...)".  It compiles when its parentheses are balanced.
RECURSIVE Balanced(_, _)
Balanced(src, depth) ==
    IF src = <<>> THEN depth = 0
    ELSE IF Head(src) = "(" THEN Balanced(Tail(src), depth + 1)
    ELSE IF Head(src) = ")" THEN depth > 0 /\ Balanced(Tail(src), depth - 1)
    ELSE Balanced(Tail(src), depth)

RegexCompiles(src) == Balanced(src, 0)

\* the characters the regex matches, in order
Literal(src) == SelectSeq(src, LAMBDA c : c # "(" /\ c # ")")

\* position of the parenthesis closing the one opened before position i
RECURSIVE CloseOf(_, _, _)
CloseOf(src, i, depth) ==
    IF src[i] = ")" /\ depth = 0 THEN i
    ELSE IF src[i] = ")" THEN CloseOf(src, i + 1, depth - 1)
    ELSE IF src[i] = "(" THEN CloseOf(src, i + 1, depth + 1)
    ELSE CloseOf(src, i + 1, depth)

\* the texts of the groups of a compiled regex, in order of their opening
RECURSIVE GroupsFrom(_, _)
GroupsFrom(src, i) ==
    IF i > Len(src) THEN <<>>
    ELSE IF src[i] = "("
         THEN <<Literal(SubSeq(src, i + 1, CloseOf(src, i + 1, 0) - 1))>>
              \o GroupsFrom(src, i + 1)
         ELSE GroupsFrom(src, i + 1)

Occurs(lit, text) ==
    \E p \in 0..(Len(text) - Len(lit)) : SubSeq(text, p + 1, p + Len(lit)) = lit

\* Regex::captures(text): the capture set of the match, None without match
RegexCaptures(src, text) ==
    IF Occurs(Literal(src), text)
    THEN LET groups == GroupsFrom(src, 1)
         IN Some(<<Some(Literal(src))>>
                 \o [k \in 1..Len(groups) |-> Some(groups[k])])
    ELSE None

\* ------------------------------------------------ matchers of one family
Families == <<"Device", "OS", "UserAgent">>

KindSet == {Families[i] : i \in 1..Len(Families)}

\* Matcher::try_from(record): compile one pattern record of a family
TryFrom(record, kind) ==
    IF RegexCompiles(record.regex)
    THEN [ok |-> TRUE,
          val |-> [kind |-> kind, regex |-> record.regex,
                   family_replacement |-> record.family_replacement],
          err |-> ""]
    ELSE [ok |-> FALSE, val |-> <<>>, err |-> kind]

\* the default value of a family's result: every field absent
Default(kind) == [kind |-> kind, family |-> None, v1 |-> None]

\* a field taken directly from a capture group
GroupField(group) == IF group.some THEN none_if_empty(group.val) ELSE None

\* Matcher::try_parse(text): the extraction, None without match
TryParse(matcher, text) ==
    LET caps == RegexCaptures(matcher.regex, text)
    IN IF ~caps.some THEN None
       ELSE Some([kind |-> matcher.kind,
                  family |->
                      IF matcher.family_replacement.some
                      THEN none_if_empty(
                               replace(matcher.family_replacement.val, caps.val))
                      ELSE GroupField(CapturesGet(caps.val, 1)),
                  v1 |-> GroupField(CapturesGet(caps.val, 2))])

\* ------------------------------------------------------------------ state
VARIABLES
    replacement,   \* replace: the template argument
    captures,      \* replace: the capture set argument
    rpc,           \* replace: "call" before the call, "done" after
    out,           \* replace: the returned string
    field,         \* none_if_empty(replace(..)): the field value
    regex_file,    \* try_from: the RegexFile argument
    bpc,           \* try_from: the statement being executed
    chunks,        \* try_from: the parallel tasks of the current family
    full,          \* try_from: the short-circuit flag of try_reduce
    device_matchers,      \* try_from: local, set by the first statement
    os_matchers,          \* try_from: local, set by the second statement
    user_agent_matchers,  \* try_from: local, set by the third statement
    result,        \* try_from: the returned Result<UserAgentParser, Error>
    reduces,       \* history: number of try_reduce combinations so far
    parser,        \* parse*: the shared UserAgentParser (self)
    built,         \* history: the parser as construction returned it
    callers        \* parse*: the state of each caller's call

rvars == <<replacement, captures, rpc, out, field>>

bvars == <<regex_file, bpc, chunks, full, device_matchers, os_matchers,
           user_agent_matchers, result, reduces>>

pvars == <<parser, built, callers>>

vars == <<replacement, captures, rpc, out, field, regex_file, bpc, chunks,
          full, device_matchers, os_matchers, user_agent_matchers, result,
          reduces, parser, built, callers>>


\* ------------------------------------------- callers of the parser
Callers == {"t1", "t2"}

NoParser ==
    [device_matchers |-> <<>>, os_matchers |-> <<>>,
     user_agent_matchers |-> <<>>]

NoneYet == [k \in KindSet |-> None]

NoEvaluations == [k \in KindSet |-> <<>>]

IdleCaller ==
    [pc |-> "idle", op |-> "", user_agent |-> <<>>, scan |-> 0, idx |-> 0,
     evaluated |-> NoEvaluations, res |-> NoneYet]

\* no parser in use
ParseIdle ==
    /\ parser = NoParser
    /\ built = NoParser
    /\ callers = [c \in Callers |-> IdleCaller]

\* ------------------------------------------- UserAgentParser::try_from
\* pattern records: a regex source and an optional family template
GoodRecords ==
    {[regex |-> <<"(", "a", ")">>, family_replacement |-> None],
     [regex |-> <<"(", "a", ")", "(", "b", ")">>,
      family_replacement |-> Some(<<"$", "2">>)]}

BadRecords ==
    {[regex |-> <<"(", "a">>, family_replacement |-> None]}

PatternRecords == GoodRecords \cup BadRecords

RECURSIVE ListsUpTo(_, _)
ListsUpTo(S, n) ==
    IF n = 0 THEN {<<>>}
    ELSE LET shorter == ListsUpTo(S, n - 1)
         IN shorter \cup {Append(l, x) : l \in shorter, x \in S}

\* the three record lists of a file, at most n records in all
RegexFiles(S, n) ==
    UNION {UNION {
        {[device_parsers |-> d, os_parsers |-> o, user_agent_parsers |-> u] :
            u \in ListsUpTo(S, n - Len(d) - Len(o))} :
        o \in ListsUpTo(S, n - Len(d))} :
        d \in ListsUpTo(S, n)}

\* the record list a statement of try_from consumes
RecordsOf(file, kind) ==
    CASE kind = "Device" -> file.device_parsers
      [] kind = "OS" -> file.os_parsers
      [] kind = "UserAgent" -> file.user_agent_parsers

\* Result<Vec<Matcher>, Error>
Ok(v) == [ok |-> TRUE, val |-> v, err |-> ""]

Err(e) == [ok |-> FALSE, val |-> <<>>, err |-> e]

FoldOpSkip(v, record, kind) ==
    LET matcher == TryFrom(record, kind)
    IN IF matcher.ok THEN Ok(Append(v, matcher.val)) ELSE Ok(v)

\* the try_fold closure: compile the record and push the matcher
FoldOp(v, record, kind) ==
    LET matcher == TryFrom(record, kind)
    IN IF matcher.ok THEN Ok(Append(v, matcher.val)) ELSE Err(matcher.err)

ReduceOpSwapped(v1, v2) == Ok(v2 \o v1)

\* the try_reduce closure: v1.extend(v2)
ReduceOp(v1, v2) == Ok(v1 \o v2)

\* try_reduce on two adjacent results: the closure on two successes,
\* otherwise an error of one of them
TryReduce(left, right) ==
    IF left.ok /\ right.ok THEN ReduceOp(left.val, right.val)
    ELSE IF ~left.ok THEN left
    ELSE right

\* one task over the records lo+1..hi; control is the state of its fold
NewChunk(lo, hi) ==
    [lo |-> lo, hi |-> hi, next |-> lo, phase |-> "ready", control |-> Ok(<<>>)]

StartFamily(kind, file) == <<NewChunk(0, Len(RecordsOf(file, kind)))>>

Building == bpc \in {"Device", "OS", "UserAgent"}

ReplaceAt(seq, k, new) ==
    SubSeq(seq, 1, k - 1) \o new \o SubSeq(seq, k + 1, Len(seq))

\* no construction in progress
BuildIdle ==
    /\ regex_file = [device_parsers |-> <<>>, os_parsers |-> <<>>,
                     user_agent_parsers |-> <<>>]
    /\ bpc = "idle"
    /\ chunks = <<>>
    /\ full = FALSE
    /\ device_matchers = <<>>
    /\ os_matchers = <<>>
    /\ user_agent_matchers = <<>>
    /\ result = [tag |-> "none"]
    /\ reduces = 0

InitBuild ==
    /\ regex_file \in RegexFiles(PatternRecords, MaxRecords)
    /\ bpc = "Device"
    /\ chunks = StartFamily("Device", regex_file)
    /\ full = FALSE
    /\ device_matchers = <<>>
    /\ os_matchers = <<>>
    /\ user_agent_matchers = <<>>
    /\ result = [tag |-> "none"]
    /\ reduces = 0
    /\ replacement = <<>>
    /\ captures = <<Some(<<>>)>>
    /\ rpc = "idle"
    /\ out = <<>>
    /\ field = None
    /\ ParseIdle

\* into_par_iter: a task that has not started splits its range in two
Split(k, m) ==
    /\ Building
    /\ k \in 1..Len(chunks)
    /\ chunks[k].phase = "ready"
    /\ chunks[k].lo < m /\ m < chunks[k].hi
    /\ chunks' = ReplaceAt(chunks, k, <<NewChunk(chunks[k].lo, m),
                                        NewChunk(m, chunks[k].hi)>>)
    /\ UNCHANGED <<regex_file, bpc, full, device_matchers, os_matchers,
                   user_agent_matchers, result, reduces>>
    /\ UNCHANGED rvars
    /\ UNCHANGED pvars

\* try_fold: a task feeds its next record to the closure
FoldItem(k) ==
    /\ Building
    /\ k \in 1..Len(chunks)
    /\ chunks[k].phase \in {"ready", "folding"}
    /\ chunks[k].control.ok
    /\ chunks[k].next < chunks[k].hi
    /\ LET record == RecordsOf(regex_file, bpc)[chunks[k].next + 1]
       IN chunks' = [chunks EXCEPT
              ![k].phase = "folding",
              ![k].next = @ + 1,
              ![k].control = FoldOp(chunks[k].control.val, record, bpc)]
    /\ UNCHANGED <<regex_file, bpc, full, device_matchers, os_matchers,
                   user_agent_matchers, result, reduces>>
    /\ UNCHANGED rvars
    /\ UNCHANGED pvars

\* try_fold: a task completes when its records are exhausted, its closure
\* failed, or try_reduce has been told of a failure; a failed result sets
\* the short-circuit flag
FoldComplete(k) ==
    /\ Building
    /\ k \in 1..Len(chunks)
    /\ chunks[k].phase \in {"ready", "folding"}
    /\ \/ chunks[k].next = chunks[k].hi
       \/ ~chunks[k].control.ok
       \/ full
    /\ chunks' = [chunks EXCEPT ![k].phase = "done"]
    /\ full' = (full \/ ~chunks[k].control.ok)
    /\ UNCHANGED <<regex_file, bpc, device_matchers, os_matchers,
                   user_agent_matchers, result, reduces>>
    /\ UNCHANGED rvars
    /\ UNCHANGED pvars

\* try_reduce: two adjacent completed tasks are combined, left before right
Reduce(k) ==
    /\ Building
    /\ k \in 1..(Len(chunks) - 1)
    /\ chunks[k].phase = "done"
    /\ chunks[k + 1].phase = "done"
    /\ chunks' = SubSeq(chunks, 1, k - 1)
           \o <<[lo |-> chunks[k].lo, hi |-> chunks[k + 1].hi,
                 next |-> chunks[k + 1].hi, phase |-> "done",
                 control |-> TryReduce(chunks[k].control,
                                       chunks[k + 1].control)]>>
           \o SubSeq(chunks, k + 2, Len(chunks))
    /\ reduces' = reduces + 1
    /\ UNCHANGED <<regex_file, bpc, full, device_matchers, os_matchers,
                   user_agent_matchers, result>>
    /\ UNCHANGED rvars
    /\ UNCHANGED pvars

\* the `?` after try_reduce, then the next statement of try_from
FamilyDone ==
    /\ Building
    /\ Len(chunks) = 1
    /\ chunks[1].phase = "done"
    /\ LET r == chunks[1].control
       IN IF ~r.ok
          THEN /\ bpc' = "err"
               /\ result' = [tag |-> "Err", error |-> r.err]
               /\ chunks' = <<>>
               /\ UNCHANGED <<device_matchers, os_matchers,
                              user_agent_matchers>>
          ELSE /\ device_matchers' =
                      IF bpc = "Device" THEN r.val ELSE device_matchers
               /\ os_matchers' = IF bpc = "OS" THEN r.val ELSE os_matchers
               /\ user_agent_matchers' =
                      IF bpc = "UserAgent" THEN r.val ELSE user_agent_matchers
               /\ IF bpc = "UserAgent"
                  THEN /\ bpc' = "ok"
                       /\ chunks' = <<>>
                       /\ result' =
                              [tag |-> "Ok",
                               parser |->
                                   [device_matchers |-> device_matchers,
                                    os_matchers |-> os_matchers,
                                    user_agent_matchers |-> r.val]]
                  ELSE /\ bpc' = (IF bpc = "Device" THEN "OS" ELSE "UserAgent")
                       /\ chunks' = StartFamily(bpc', regex_file)
                       /\ UNCHANGED result
    /\ full' = FALSE
    /\ UNCHANGED <<regex_file, reduces>>
    /\ UNCHANGED rvars
    /\ UNCHANGED pvars

NextBuild ==
    \/ \E k \in 1..MaxRecords, m \in 1..MaxRecords : Split(k, m)
    \/ \E k \in 1..MaxRecords : FoldItem(k)
    \/ \E k \in 1..MaxRecords : FoldComplete(k)
    \/ \E k \in 1..MaxRecords : Reduce(k)
    \/ FamilyDone

SpecBuild == InitBuild /\ [][NextBuild]_vars


\* --------------------------------------------- claims about try_from
\* the records that do not compile, as <<family, index>>
Malformed ==
    {ki \in KindSet \X (1..MaxRecords + 1) :
        /\ ki[2] <= Len(RecordsOf(regex_file, ki[1]))
        /\ ~RegexCompiles(RecordsOf(regex_file, ki[1])[ki[2]].regex)}

\* the matchers of a record list, record by record
CompiledInOrder(kind) ==
    [i \in 1..Len(RecordsOf(regex_file, kind)) |->
        TryFrom(RecordsOf(regex_file, kind)[i], kind).val]

\* C2: when try_from succeeds, each family's matcher list has the length of
\* its record list and its i-th matcher is compiled from the i-th record,
\* however the records were split into tasks and the tasks combined.
C2_OrderPreserved ==
    result.tag = "Ok" =>
        /\ result.parser.device_matchers = CompiledInOrder("Device")
        /\ result.parser.os_matchers = CompiledInOrder("OS")
        /\ result.parser.user_agent_matchers = CompiledInOrder("UserAgent")

\* a parser built from two different device records by two combined tasks
C2_Witness ==
    /\ result.tag = "Ok"
    /\ reduces > 0
    /\ Len(regex_file.device_parsers) >= 2
    /\ regex_file.device_parsers[1] # regex_file.device_parsers[2]

\* C3: a malformed record in any family makes try_from return an error and
\* never a parser; the error of a single malformed record is the variant of
\* its family; an error is returned only if some record is malformed.
C3_AtomicFailure ==
    /\ Malformed # {} => result.tag # "Ok"
    /\ result.tag = "Err" => Malformed # {}
    /\ \A ki \in Malformed :
           (Malformed = {ki} /\ result.tag = "Err") => result.error = ki[1]

\* an error for a single malformed OS record, after the device records and
\* another OS record had compiled
C3_Witness ==
    /\ result.tag = "Err"
    /\ result.error = "OS"
    /\ Cardinality(Malformed) = 1
    /\ device_matchers # <<>>
    /\ Len(regex_file.os_parsers) >= 2


\* ------------------------------------------------ parse, parse_device, ...
Ops == {"parse", "parse_device", "parse_os", "parse_user_agent"}

UserAgents == {<<>>, <<"a">>, <<"a", "b">>}

\* the parser try_from returns for a file whose records all compile
ParserOf(file) ==
    [device_matchers |->
         [i \in 1..Len(file.device_parsers) |->
             TryFrom(file.device_parsers[i], "Device").val],
     os_matchers |->
         [i \in 1..Len(file.os_parsers) |->
             TryFrom(file.os_parsers[i], "OS").val],
     user_agent_matchers |->
         [i \in 1..Len(file.user_agent_parsers) |->
             TryFrom(file.user_agent_parsers[i], "UserAgent").val]]

\* the matcher list a scan reads
MatchersOf(p, kind) ==
    CASE kind = "Device" -> p.device_matchers
      [] kind = "OS" -> p.os_matchers
      [] kind = "UserAgent" -> p.user_agent_matchers

\* the families an operation scans, in order
ScansOf(op) ==
    CASE op = "parse" -> <<"Device", "OS", "UserAgent">>
      [] op = "parse_device" -> <<"Device">>
      [] op = "parse_os" -> <<"OS">>
      [] op = "parse_user_agent" -> <<"UserAgent">>

InitParse ==
    /\ parser \in {ParserOf(f) : f \in RegexFiles(GoodRecords, MaxMatchers)}
    /\ built = parser
    /\ callers = [c \in Callers |-> IdleCaller]
    /\ BuildIdle
    /\ replacement = <<>>
    /\ captures = <<Some(<<>>)>>
    /\ rpc = "idle"
    /\ out = <<>>
    /\ field = None

UnwrapOrPresent(opt, kind) ==
    IF opt.some THEN opt.val
    ELSE [kind |-> kind, family |-> Some(<<>>), v1 |-> None]

\* Option::unwrap_or_default
UnwrapOrDefault(opt, kind) == IF opt.some THEN opt.val ELSE Default(kind)

\* the family a caller is scanning
ScanKind(cl) == ScansOf(cl.op)[cl.scan]

\* the iterator chain of one family has produced opt: store the family's
\* result, then start the next scan of parse or return
Finish(cl, opt) ==
    LET kind == ScanKind(cl)
        stored == [cl EXCEPT !.res[kind] = Some(UnwrapOrDefault(opt, kind))]
    IN IF cl.scan < Len(ScansOf(cl.op))
       THEN [stored EXCEPT !.scan = @ + 1, !.idx = 1]
       ELSE [stored EXCEPT !.pc = "done"]

\* a caller enters one of the four operations, its previous call returned
Call(c, op, ua) ==
    /\ callers[c].pc \in {"idle", "done"}
    /\ callers' = [callers EXCEPT ![c] =
           [pc |-> "scan", op |-> op, user_agent |-> ua, scan |-> 1,
            idx |-> 1, evaluated |-> NoEvaluations, res |-> NoneYet]]
    /\ UNCHANGED <<parser, built>>
    /\ UNCHANGED rvars
    /\ UNCHANGED bvars

ScanStepLast(c) ==
    LET cl == callers[c]
        list == MatchersOf(parser, ScanKind(cl))
    IN /\ cl.pc = "scan"
       /\ cl.idx <= Len(list)
       /\ LET found == TryParse(list[cl.idx], cl.user_agent)
              tried == [cl EXCEPT
                           !.evaluated[ScanKind(cl)] = Append(@, cl.idx)]
          IN callers' = [callers EXCEPT ![c] =
                 IF found.some /\ cl.idx = Len(list) THEN Finish(tried, found)
                 ELSE [tried EXCEPT !.idx = @ + 1]]
       /\ UNCHANGED <<parser, built>>
       /\ UNCHANGED rvars
       /\ UNCHANGED bvars

ScanStepCollect(c) ==
    LET cl == callers[c]
        list == MatchersOf(parser, ScanKind(cl))
    IN /\ cl.pc = "scan"
       /\ cl.idx <= Len(list)
       /\ LET hits == {i \in cl.idx..Len(list) :
                          TryParse(list[i], cl.user_agent).some}
              tried == [cl EXCEPT
                           !.evaluated[ScanKind(cl)] =
                               @ \o [i \in 1..(Len(list) - cl.idx + 1) |->
                                        cl.idx + i - 1]]
          IN callers' = [callers EXCEPT ![c] =
                 IF hits # {}
                 THEN Finish(tried,
                          TryParse(list[CHOOSE i \in hits :
                                            \A j \in hits : i <= j],
                                   cl.user_agent))
                 ELSE [tried EXCEPT !.idx = Len(list) + 1]]
       /\ UNCHANGED <<parser, built>>
       /\ UNCHANGED rvars
       /\ UNCHANGED bvars

ScanStepDrain(c) ==
    LET cl == callers[c]
        kind == ScanKind(cl)
        list == MatchersOf(parser, kind)
    IN /\ cl.pc = "scan"
       /\ cl.idx <= Len(list)
       /\ LET found == TryParse(list[cl.idx], cl.user_agent)
              tried == [cl EXCEPT !.evaluated[kind] = Append(@, cl.idx)]
              rest == SubSeq(list, 1, cl.idx - 1)
                          \o SubSeq(list, cl.idx + 1, Len(list))
          IN /\ callers' = [callers EXCEPT ![c] =
                    IF found.some THEN Finish(tried, found) ELSE tried]
             /\ parser' =
                    CASE kind = "Device" ->
                             [parser EXCEPT !.device_matchers = rest]
                      [] kind = "OS" -> [parser EXCEPT !.os_matchers = rest]
                      [] kind = "UserAgent" ->
                             [parser EXCEPT !.user_agent_matchers = rest]
       /\ UNCHANGED built
       /\ UNCHANGED rvars
       /\ UNCHANGED bvars

\* filter_map pulls the next matcher and calls try_parse on it; take(1)
\* and next() stop the scan at the first Some
ScanStep(c) ==
    LET cl == callers[c]
        list == MatchersOf(parser, ScanKind(cl))
    IN /\ cl.pc = "scan"
       /\ cl.idx <= Len(list)
       /\ LET found == TryParse(list[cl.idx], cl.user_agent)
              tried == [cl EXCEPT
                           !.evaluated[ScanKind(cl)] = Append(@, cl.idx)]
          IN callers' = [callers EXCEPT ![c] =
                 IF found.some THEN Finish(tried, found)
                 ELSE [tried EXCEPT !.idx = @ + 1]]
       /\ UNCHANGED <<parser, built>>
       /\ UNCHANGED rvars
       /\ UNCHANGED bvars

ScanEndSpin(c) ==
    LET cl == callers[c]
        list == MatchersOf(parser, ScanKind(cl))
    IN /\ cl.pc = "scan"
       /\ cl.idx > Len(list)
       /\ UNCHANGED vars

\* the matcher list is exhausted: next() is None, unwrap_or_default
ScanEnd(c) ==
    LET cl == callers[c]
        list == MatchersOf(parser, ScanKind(cl))
    IN /\ cl.pc = "scan"
       /\ cl.idx > Len(list)
       /\ callers' = [callers EXCEPT ![c] = Finish(cl, None)]
       /\ UNCHANGED <<parser, built>>
       /\ UNCHANGED rvars
       /\ UNCHANGED bvars

NextParse ==
    \/ \E c \in Callers, op \in Ops, ua \in UserAgents : Call(c, op, ua)
    \/ \E c \in Callers : ScanStep(c)
    \/ \E c \in Callers : ScanEnd(c)

SpecParse == InitParse /\ [][NextParse]_vars

\* one caller alone; its scan keeps running, it has no suspension point
Solo == "t1"

NextSolo ==
    \/ \E op \in Ops, ua \in UserAgents : Call(Solo, op, ua)
    \/ ScanStep(Solo)
    \/ ScanEnd(Solo)

FairSpecParse ==
    InitParse /\ [][NextSolo]_vars /\ WF_vars(ScanStep(Solo) \/ ScanEnd(Solo))


\* ------------------------------------------------ claims about parse*
\* the indices of the matchers of a family that succeed on an input
Succeeding(p, kind, ua) ==
    {i \in 1..Len(MatchersOf(p, kind)) :
        TryParse(MatchersOf(p, kind)[i], ua).some}

Smallest(S) == CHOOSE i \in S : \A j \in S : i <= j

\* one call made alone: the matchers of a family tried from index i on
RECURSIVE ScanAlone(_, _, _, _)
ScanAlone(p, kind, ua, i) ==
    IF i > Len(MatchersOf(p, kind)) THEN Default(kind)
    ELSE IF TryParse(MatchersOf(p, kind)[i], ua).some
         THEN TryParse(MatchersOf(p, kind)[i], ua).val
         ELSE ScanAlone(p, kind, ua, i + 1)

Scanned(op) == {ScansOf(op)[i] : i \in 1..Len(ScansOf(op))}

\* C1: when some matcher of the family succeeds on the input, the value a
\* scan returns is the extraction of the succeeding matcher of smallest
\* index.
C1_FirstMatchWins ==
    \A c \in Callers, kind \in KindSet :
        LET cl == callers[c]
            hits == Succeeding(parser, kind, cl.user_agent)
        IN (cl.res[kind].some /\ hits # {}) =>
               cl.res[kind].val =
                   TryParse(MatchersOf(parser, kind)[Smallest(hits)],
                            cl.user_agent).val

\* a returned call on a family whose two matchers both succeed on the input
\* with different extractions
C1_Witness ==
    \E c \in Callers, kind \in KindSet :
        LET cl == callers[c]
            list == MatchersOf(parser, kind)
        IN /\ cl.pc = "done"
           /\ cl.res[kind].some
           /\ Succeeding(parser, kind, cl.user_agent) = {1, 2}
           /\ TryParse(list[1], cl.user_agent)
                  # TryParse(list[2], cl.user_agent)

\* C4: when the family's matcher list is empty or no matcher succeeds on
\* the input, the scan returns the family's default value, every field
\* absent.
C4_NoMatchDefault ==
    \A c \in Callers, kind \in KindSet :
        LET cl == callers[c]
        IN (cl.res[kind].some
                /\ Succeeding(parser, kind, cl.user_agent) = {}) =>
               /\ cl.res[kind].val = Default(kind)
               /\ ~cl.res[kind].val.family.some
               /\ ~cl.res[kind].val.v1.some

\* a returned call on a non-empty matcher list none of whose matchers
\* succeeds
C4_Witness ==
    \E c \in Callers, kind \in KindSet :
        LET cl == callers[c]
        IN /\ cl.pc = "done"
           /\ cl.res[kind].some
           /\ MatchersOf(parser, kind) # <<>>
           /\ Succeeding(parser, kind, cl.user_agent) = {}

\* C8: the calls never modify the matcher lists, and the result of every
\* returned call is the result of the same call made alone on the lists as
\* constructed, whatever the other callers did meanwhile.
C8_ReadOnlySharing ==
    /\ parser = built
    /\ \A c \in Callers :
           LET cl == callers[c]
           IN cl.pc = "done" =>
                  \A kind \in KindSet :
                      cl.res[kind] =
                          IF kind \in Scanned(cl.op)
                          THEN Some(ScanAlone(built, kind, cl.user_agent, 1))
                          ELSE None

\* two callers have both returned from calls that scanned the same
\* non-empty list
C8_Witness ==
    \E kind \in KindSet :
        /\ MatchersOf(built, kind) # <<>>
        /\ \A c \in Callers :
               /\ callers[c].pc = "done"
               /\ callers[c].evaluated[kind] # <<>>

\* a scan examines every matcher at most once
C9_AtMostOnce ==
    \A c \in Callers, kind \in KindSet :
        LET ev == callers[c].evaluated[kind]
        IN /\ \A i \in 1..Len(ev) : ev[i] \in 1..Len(MatchersOf(parser, kind))
           /\ \A i, j \in 1..Len(ev) : ev[i] = ev[j] => i = j
           /\ callers[c].pc = "done" =>
                  \A k \in Scanned(callers[c].op) : callers[c].res[k].some

\* C9: every call examines each matcher at most once, terminates and
\* returns a value for every family it scans, for every parser and input,
\* the empty ones included.
C9_Totality ==
    /\ []C9_AtMostOnce
    /\ (callers[Solo].pc = "scan") ~> (callers[Solo].pc = "done")

\* a call on the empty input has returned after examining every matcher of
\* a non-empty list
C9_Witness ==
    \E c \in Callers, kind \in KindSet :
        /\ callers[c].pc = "done"
        /\ callers[c].user_agent = <<>>
        /\ MatchersOf(parser, kind) # <<>>
        /\ Len(callers[c].evaluated[kind]) = Len(MatchersOf(parser, kind))

\* C10: the matchers a scan has evaluated are those of indices 1..n in
\* that order, none before the last of them succeeded, and when the scan
\* has returned n is the index of the first succeeding matcher, or the
\* length of the list when none succeeds.
C10_ShortCircuit ==
    \A c \in Callers, kind \in KindSet :
        LET cl == callers[c]
            ev == cl.evaluated[kind]
            hits == Succeeding(parser, kind, cl.user_agent)
        IN /\ ev = [i \in 1..Len(ev) |-> i]
           /\ \A i \in 1..(Len(ev) - 1) : i \notin hits
           /\ cl.res[kind].some =>
                  Len(ev) = IF hits # {} THEN Smallest(hits)
                            ELSE Len(MatchersOf(parser, kind))

\* a returned call that evaluated only the first of two matchers that both
\* succeed on the input
C10_Witness ==
    \E c \in Callers, kind \in KindSet :
        /\ callers[c].pc = "done"
        /\ callers[c].evaluated[kind] = <<1>>
        /\ 2 \in Succeeding(parser, kind, callers[c].user_agent)

\* ----------------------------------------- specification of replace alone
GroupTexts == {<<>>, <<"a">>, <<" ">>, <<"$", "2">>}

MatchTexts == {<<"a">>, <<"a", " ">>}

\* capture sets of a regex with n groups
CaptureSets(n) ==
    {<<Some(m)>> \o g : m \in MatchTexts,
        g \in [1..n -> {None} \cup {Some(t) : t \in GroupTexts}]}

AllCaptureSets == UNION {CaptureSets(n) : n \in 0..MaxGroups}

Templates == TextsUpTo(Chars, MaxTemplateLen)

InitReplace ==
    /\ replacement \in Templates
    /\ captures \in AllCaptureSets
    /\ rpc = "call"
    /\ out = <<>>
    /\ field = None
    /\ BuildIdle
    /\ ParseIdle

CallReplace ==
    /\ rpc = "call"
    /\ rpc' = "done"
    /\ out' = replace(replacement, captures)
    /\ field' = none_if_empty(replace(replacement, captures))
    /\ UNCHANGED <<replacement, captures>>
    /\ UNCHANGED bvars
    /\ UNCHANGED pvars

NextReplace == CallReplace

SpecReplace == InitReplace /\ [][NextReplace]_vars

\* ------------------------------------------------ claims about replace
\* The substitution the specification describes: every placeholder, a
\* dollar sign followed by its maximal run of digits (not starting with 0),
\* is resolved against that group number in one pass; a group that is
\* missing or did not participate gives the empty text.
RECURSIVE DigitRun(_)
DigitRun(s) ==
    IF s # <<>> /\ IsDigit(Head(s)) THEN <<Head(s)>> \o DigitRun(Tail(s))
    ELSE <<>>

RECURSIVE NumberOf(_)
NumberOf(ds) ==
    IF ds = <<>> THEN 0
    ELSE 10 * NumberOf(SubSeq(ds, 1, Len(ds) - 1)) + DigitVal(ds[Len(ds)])

AtPlaceholder(s) ==
    /\ Len(s) >= 2
    /\ s[1] = "$"
    /\ IsDigit(s[2])
    /\ s[2] # "0"

RECURSIVE SubstituteOnce(_, _)
SubstituteOnce(s, caps) ==
    IF s = <<>> THEN <<>>
    ELSE IF AtPlaceholder(s)
         THEN LET run == DigitRun(Tail(s))
              IN UnwrapOr(CapturesGet(caps, NumberOf(run)), <<>>)
                 \o SubstituteOnce(Drop(s, 1 + Len(run)), caps)
         ELSE <<Head(s)>> \o SubstituteOnce(Tail(s), caps)

\* the group numbers the placeholders of a template refer to
RECURSIVE Placeholders(_)
Placeholders(s) ==
    IF s = <<>> THEN {}
    ELSE IF AtPlaceholder(s)
         THEN LET run == DigitRun(Tail(s))
              IN {NumberOf(run)} \cup Placeholders(Drop(s, 1 + Len(run)))
         ELSE Placeholders(Tail(s))

MissingGroup(caps, k) == ~CapturesGet(caps, k).some

\* C5: for a template whose placeholders all name groups that took part in
\* the match, replace returns the template with every placeholder $i
\* replaced by the text of group i (each placeholder against its own
\* number, captured text inserted verbatim), then trimmed.
C5_TemplateSubstitution ==
    (/\ rpc = "done"
     /\ Placeholders(replacement) # {}
     /\ \A k \in Placeholders(replacement) : ~MissingGroup(captures, k))
    => out = Trim(SubstituteOnce(replacement, captures))

\* C6: when every placeholder of the template refers to a group that is
\* missing or did not participate, each is resolved to the empty text: the
\* result is the trimmed template without its placeholders.
C6_LenientGroupReferences ==
    (/\ rpc = "done"
     /\ Placeholders(replacement) # {}
     /\ \A k \in Placeholders(replacement) : MissingGroup(captures, k))
    => out = Trim(SubstituteOnce(replacement, <<captures[1]>>))

\* C7: the field none_if_empty(replace(template, captures)) is absent or a
\* non-empty text without surrounding whitespace.
C7_TrimmedOrAbsent ==
    rpc = "done" =>
        \/ field = None
        \/ /\ field.some
           /\ field.val # <<>>
           /\ Trim(field.val) = field.val

====
